---- MODULE Spec2Model ----
(***************************************************************************)
(* Handlers of the recipe backend (routes/recipes.js): rate, comment, add   *)
(* favorite and remove favorite, create, and the listings (the filtered    *)
(* and paginated listing, the popular listing and the read of one recipe)  *)
(* run by concurrent requests against the Recipe and User collections.     *)
(*                                                                         *)
(* Every handler is an async function: it runs atomically up to an await   *)
(* and other requests run while it waits.  One action models one such      *)
(* segment: the request's arrival up to the first await, and then the      *)
(* completion of each awaited store operation together with the code that  *)
(* follows it up to the next await or the response.                        *)
(*                                                                         *)
(* The store operations are those of the Mongoose document API the code    *)
(* calls: findById casts its argument to an ObjectId and loads a copy of   *)
(* the document; save() sends the changes made to the copy, an array push  *)
(* as $push (with $inc of the version key __v), an assignment to a field   *)
(* of an array element as $set on its position guarded by the loaded __v,  *)
(* an assignment of a whole array as $set guarded by the loaded __v and    *)
(* with $inc of it; a guarded update that matches no document throws a     *)
(* VersionError.  Any store operation may also fail (connection lost);     *)
(* every handler catches what is thrown and answers 500.  A sort of find   *)
(* fixes no order among documents that are equal in every sort key, and a  *)
(* sort key that is an array field orders by the greatest element.         *)
(*                                                                         *)
(* The Recipe document is that of the schema which declares ratings and    *)
(* comments (the second copy of the schema declares comments only).  The   *)
(* User schema is not part of the sources: of a user the model keeps what  *)
(* the routes use, the array favoriteRecipes of recipe ObjectIds.          *)
(***************************************************************************)
EXTENDS Integers, Sequences, FiniteSets, TLC

VARIABLES
    ratings,          \* recipe ObjectId -> stored ratings array of the recipe
    comments,         \* recipe ObjectId -> stored comments array of the recipe
    recipeV,          \* recipe ObjectId -> version key __v of the recipe document
    favoriteRecipes,  \* user -> stored favoriteRecipes array of the user
    userV,            \* user -> version key __v of the user document
    calls,            \* the requests received so far, in order of arrival
    catalog,          \* the Recipe collection: its documents in natural order
    requests          \* the listing requests received so far, in order of arrival

vars == <<ratings, comments, recipeV, favoriteRecipes, userV, calls, catalog, requests>>
store == <<ratings, comments, recipeV, favoriteRecipes, userV>>
browse == <<catalog, requests>>

----------------------------------------------------------------------------
(* ObjectIds *)

\* An ObjectId, written by its hex digits in lower case.
ObjectId(hex) == [hex |-> hex]

\* ObjectId.prototype.toString (toHexString): the lower-case hex string.
toHexString(oid) == oid.hex

\* the hex digits of a string in lower case
LowerCase(s) ==
    CASE s = "A1" -> "a1"
      [] s = "B2" -> "b2"
      [] s = "C3" -> "c3"
      [] OTHER -> s

\* the strings that are the hex digits of an ObjectId, in either case
IsObjectIdString(s) == LowerCase(s) \in {"a1", "b2", "c3"}

CastError == [error |-> "CastError"]

\* Casting a string to an ObjectId (findById): hex digits in either case
\* name the same id; anything else throws a CastError.
CastObjectId(s) ==
    IF IsObjectIdString(s) THEN ObjectId(LowerCase(s)) ELSE CastError

----------------------------------------------------------------------------
(* Bounds and input sets *)

\* number of requests received in one behaviour
MaxCalls == 2

\* authenticated users (req.user._id)
Users == {ObjectId("u1"), ObjectId("u2")}

\* _id of the recipes in the collection
Recipes == {ObjectId("a1"), ObjectId("b2")}

\* values of req.params.id: the hex strings of the stored recipes, the hex
\* string of no stored recipe, and a string that is no ObjectId
IdInputs == {"a1", "b2", "c3", "zz"}

\* req.params.id of the comment requests: the ids of the two recipes and a
\* well-formed id of no recipe
CommentIdInputs == {"a1", "b2", "c3"}

\* values of req.params.id of the remove-favorite route, which compares the
\* parameter as a string: the hex strings of the stored recipes, the hex
\* string of one of them in upper case, and the hex string of no stored recipe
UnfavoriteIdInputs == {"a1", "A1", "b2", "c3"}

\* one user's requests on one recipe, for the runs of more requests
SameUser == ObjectId("u1")
SameRecipe == "a1"
\* values of req.body.rating in the runs of more requests
SameUserRatings == {1, 5}
\* number of requests received in one behaviour of those runs
MaxSameUserCalls == 4

\* users who each rate one recipe once, in the order their requests arrive,
\* for the runs of distinct raters
Raters == <<ObjectId("u1"), ObjectId("u2"), ObjectId("u3"), ObjectId("u4")>>
\* number of requests received in one behaviour of those runs
MaxRaters == 3

\* values of req.body.rating
RatingInputs == {0, 1, 5}

\* values of req.body.text, as sequences of characters: the empty text, a
\* text with white space around it, and a text of white space only
TextInputs == {<< >>, <<" ", "h", "i", " ">>, <<" ">>}

\* isInt({ min: 1, max: 5 }) and the schema's min/max of ratings.rating
MinRating == 1
MaxRating == 5
\* the schema's maxlength of comments.text
MaxTextLength == 500

----------------------------------------------------------------------------
(* Conversions *)

IsSpace(ch) == ch = " "

RECURSIVE TrimLeft(_)
TrimLeft(s) ==
    IF s = << >> THEN << >>
    ELSE IF IsSpace(Head(s)) THEN TrimLeft(Tail(s)) ELSE s

RECURSIVE TrimRight(_)
TrimRight(s) ==
    IF s = << >> THEN << >>
    ELSE IF IsSpace(s[Len(s)]) THEN TrimRight(SubSeq(s, 1, Len(s) - 1)) ELSE s

\* the schema's trim: true on comments.text
Trim(s) == TrimRight(TrimLeft(s))

----------------------------------------------------------------------------
(* Array helpers *)

\* Array.prototype.find's position: the first index whose entry is of user u, 0 if none
RECURSIVE FindIndexFrom(_, _, _)
FindIndexFrom(arr, u, i) ==
    IF i > Len(arr) THEN 0
    ELSE IF toHexString(arr[i].user) = toHexString(u) THEN i
    ELSE FindIndexFrom(arr, u, i + 1)

existingRating(arr, u) == FindIndexFrom(arr, u, 1)

\* Array.prototype.includes on ObjectIds, which compares object identity
IncludesByIdentity(arr, x) == FALSE

\* MongooseArray.prototype.includes
Includes(arr, x) == \E i \in 1..Len(arr) : arr[i] = x

\* Array.prototype.filter(id => id.toString() !== param)
FilterOut(arr, param) == SelectSeq(arr, LAMBDA x : toHexString(x) # param)

----------------------------------------------------------------------------
(* Requests *)

\* a Recipe document of this _id is stored
Exists(oid) == oid \in DOMAIN recipeV

Snapshot ==
    [ratings |-> ratings, comments |-> comments, recipeV |-> recipeV,
     favoriteRecipes |-> favoriteRecipes, userV |-> userV]

NoDelta == [kind |-> "none", idx |-> 0, elem |-> "", arr |-> << >>]

\* req.body of a create request: title, and author, ratings and comments if
\* the client sends them (the other fields are taken to pass the validators
\* and the schema)
Body(title, author, rs, cs) ==
    [title |-> title, author |-> author, ratings |-> rs, comments |-> cs]

\* no author in the body
NoAuthor == ObjectId("")

NoBody == Body(<< >>, NoAuthor, << >>, << >>)

\* A request whose handler has reached its first await (at) or has answered
\* already (status # 0).  doc is the array of the document findById loaded,
\* lv its version key, delta the change made to the copy.  seen (the requests
\* answered before this one arrived), pre, post, solo, fault and wrote record
\* the run of the request for the properties; the handlers never read them.
\* body is req.body of a create request.
NewCall(op, u, id, rating, text, at, status) ==
    [op |-> op, user |-> u, id |-> id, rating |-> rating, text |-> text,
     pc |-> at, oid |-> ObjectId(""), doc |-> << >>, lv |-> 0, delta |-> NoDelta,
     status |-> status, ret |-> NoDelta.elem,
     seen |-> {k \in DOMAIN calls : calls[k].pc = "done"},
     pre |-> Snapshot, post |-> Snapshot, solo |-> TRUE,
     fault |-> FALSE, wrote |-> FALSE, body |-> NoBody]

InFlight(k) == calls[k].pc # "done"

\* Call i takes a step to record c; every other request in flight has then
\* been overlapped by it.
Step(i, c) ==
    [k \in DOMAIN calls |->
        IF k = i THEN c
        ELSE IF InFlight(k) THEN [calls[k] EXCEPT !.solo = FALSE]
        ELSE calls[k]]

\* res.status(code).json(...): the request is answered; post is the store then.
Answer(c, code, post) == [c EXCEPT !.pc = "done", !.status = code, !.post = post]

\* the catch block of a handler after a store operation threw
ServerError(c, post, fault) ==
    [Answer(c, 500, post) EXCEPT !.fault = c.fault \/ fault]

----------------------------------------------------------------------------
(* save() *)

\* save() writing the whole loaded copy doc with its change, whatever is stored
ApplyDeltaToCopy(stored, doc, d) ==
    CASE d.kind = "$push" -> Append(doc, d.elem)
      [] d.kind = "$set" /\ d.idx > 0 ->
            [doc EXCEPT ![d.idx] = [@ EXCEPT !.rating = d.elem.rating]]
      [] d.kind = "$set" /\ d.idx = 0 -> d.arr
      [] OTHER -> doc

\* a push that puts the new element in front
ApplyDeltaUnshift(stored, doc, d) ==
    CASE d.kind = "$push" -> <<d.elem>> \o stored
      [] d.kind = "$set" /\ d.idx > 0 ->
            [stored EXCEPT ![d.idx] = [@ EXCEPT !.rating = d.elem.rating]]
      [] d.kind = "$set" /\ d.idx = 0 -> d.arr
      [] OTHER -> stored

\* The update save() sends for the change d made to the loaded copy doc of an
\* array, applied to the array as stored (the copy is not written back):
\* $push appends to it, $set of an element's field writes the position, $set
\* of the array replaces it.
ApplyDelta(stored, doc, d) ==
    CASE d.kind = "$push" -> Append(stored, d.elem)
      [] d.kind = "$set" /\ d.idx > 0 ->
            [stored EXCEPT ![d.idx] = [@ EXCEPT !.rating = d.elem.rating]]
      [] d.kind = "$set" /\ d.idx = 0 -> d.arr
      [] OTHER -> stored

\* The update is guarded by the loaded version key when it writes a position
\* or replaces the array; a push is not.
VersionWhere(d) == d.kind = "$set"

\* The update increments the version key when it pushes or replaces the array.
VersionInc(d) == d.kind = "$push" \/ (d.kind = "$set" /\ d.idx = 0)

Push(elem) == [kind |-> "$push", idx |-> 0, elem |-> elem, arr |-> << >>]
SetRating(idx, elem) == [kind |-> "$set", idx |-> idx, elem |-> elem, arr |-> << >>]
SetArray(arr) == [kind |-> "$set", idx |-> 0, elem |-> "", arr |-> arr]

----------------------------------------------------------------------------
(* POST /:id/rate *)

\* The request arrives: validationResult, then findById is issued.
RateRequest(u, id, r) ==
    /\ calls' = Append(calls,
            IF r \in MinRating..MaxRating
            THEN NewCall("rate", u, id, r, << >>, "find", 0)
            ELSE NewCall("rate", u, id, r, << >>, "done", 400))
    /\ UNCHANGED <<store, browse>>

\* The change the handler makes to the loaded ratings: the user's entry is
\* overwritten (no change if it holds the value already), or a new entry is
\* pushed.
RateDelta(doc, u, r) ==
    LET idx == existingRating(doc, u)
    IN  IF idx = 0 THEN Push([user |-> u, rating |-> r])
        ELSE IF doc[idx].rating = r THEN NoDelta
        ELSE SetRating(idx, [user |-> u, rating |-> r])

\* RateFind without the check of a null recipe: recipe.ratings throws
RateFindNoNullCheck(i, fault) ==
    /\ i \in DOMAIN calls
    /\ calls[i].op = "rate" /\ calls[i].pc = "find"
    /\ LET c == calls[i]
           oid == CastObjectId(c.id)
       IN  calls' = Step(i,
              IF oid = CastError \/ fault THEN ServerError(c, Snapshot, fault)
              ELSE IF ~Exists(oid) THEN ServerError(c, Snapshot, FALSE)
              ELSE [c EXCEPT !.pc = "save", !.oid = oid, !.doc = ratings[oid],
                      !.lv = recipeV[oid],
                      !.delta = RateDelta(ratings[oid], c.user, c.rating)])
    /\ UNCHANGED <<store, browse>>

\* findById returns: 404 if null, else the loaded copy is changed and save()
\* is issued.
RateFind(i, fault) ==
    /\ i \in DOMAIN calls
    /\ calls[i].op = "rate" /\ calls[i].pc = "find"
    /\ LET c == calls[i]
           oid == CastObjectId(c.id)
       IN  calls' = Step(i,
              IF oid = CastError \/ fault THEN ServerError(c, Snapshot, fault)
              ELSE IF ~Exists(oid) THEN Answer(c, 404, Snapshot)
              ELSE [c EXCEPT !.pc = "save", !.oid = oid, !.doc = ratings[oid],
                      !.lv = recipeV[oid],
                      !.delta = RateDelta(ratings[oid], c.user, c.rating)])
    /\ UNCHANGED <<store, browse>>

\* recipe.save() of a rate request completes and the handler answers.
RateSave(i, fault) ==
    /\ i \in DOMAIN calls
    /\ calls[i].op = "rate" /\ calls[i].pc = "save"
    /\ LET c == calls[i]
           d == c.delta
       IN  IF d.kind = "none"
           THEN /\ UNCHANGED <<store, browse>>
                /\ calls' = Step(i, Answer(c, 200, Snapshot))
           ELSE IF fault \/ (VersionWhere(d) /\ recipeV[c.oid] # c.lv)
           THEN /\ UNCHANGED <<store, browse>>
                /\ calls' = Step(i, ServerError(c, Snapshot, fault))
           ELSE /\ ratings' = [ratings EXCEPT ![c.oid] = ApplyDelta(@, c.doc, d)]
                /\ recipeV' = [recipeV EXCEPT
                                  ![c.oid] = IF VersionInc(d) THEN @ + 1 ELSE @]
                /\ UNCHANGED <<comments, favoriteRecipes, userV, browse>>
                /\ calls' = Step(i, [Answer(c, 200, Snapshot') EXCEPT !.wrote = TRUE])

----------------------------------------------------------------------------
(* POST /:id/comment *)

\* The request arrives: validationResult (notEmpty), then findById is issued.
CommentRequest(u, id, t) ==
    /\ calls' = Append(calls,
            IF Len(t) > 0
            THEN NewCall("comment", u, id, 0, t, "find", 0)
            ELSE NewCall("comment", u, id, 0, t, "done", 400))
    /\ UNCHANGED <<store, browse>>

\* The entry request i pushes: the schema trims the text as it is cast, and
\* the new subdocument gets an _id of its own.
CommentEntry(i, u, t) == [user |-> u, text |-> Trim(t), _id |-> i]

\* findById returns: 404 if null, else the comment is pushed on the loaded
\* copy and save() is issued.
CommentFind(i, fault) ==
    /\ i \in DOMAIN calls
    /\ calls[i].op = "comment" /\ calls[i].pc = "find"
    /\ LET c == calls[i]
           oid == CastObjectId(c.id)
       IN  calls' = Step(i,
              IF oid = CastError \/ fault THEN ServerError(c, Snapshot, fault)
              ELSE IF ~Exists(oid) THEN Answer(c, 404, Snapshot)
              ELSE [c EXCEPT !.pc = "save", !.oid = oid, !.doc = comments[oid],
                      !.lv = recipeV[oid],
                      !.delta = Push(CommentEntry(i, c.user, c.text))])
    /\ UNCHANGED <<store, browse>>

\* the schema's validators of comments.text, run by save() before it writes
ValidComment(e) == Len(e.text) > 0 /\ Len(e.text) <= MaxTextLength

\* recipe.save() of a comment request completes; the re-read is issued.
CommentSave(i, fault) ==
    /\ i \in DOMAIN calls
    /\ calls[i].op = "comment" /\ calls[i].pc = "save"
    /\ LET c == calls[i]
           d == c.delta
       IN  IF ~ValidComment(d.elem)
           THEN /\ UNCHANGED <<store, browse>>
                /\ calls' = Step(i, ServerError(c, Snapshot, FALSE))
           ELSE IF fault
           THEN /\ UNCHANGED <<store, browse>>
                /\ calls' = Step(i, ServerError(c, Snapshot, TRUE))
           ELSE /\ comments' = [comments EXCEPT ![c.oid] = ApplyDelta(@, c.doc, d)]
                /\ recipeV' = [recipeV EXCEPT
                                  ![c.oid] = IF VersionInc(d) THEN @ + 1 ELSE @]
                /\ UNCHANGED <<ratings, favoriteRecipes, userV, browse>>
                /\ calls' = Step(i, [c EXCEPT !.pc = "reread", !.wrote = TRUE,
                                               !.post = Snapshot'])

\* The re-read findById(recipe._id) returns; the handler answers the last
\* element of the comments it read.
CommentReread(i, fault) ==
    /\ i \in DOMAIN calls
    /\ calls[i].op = "comment" /\ calls[i].pc = "reread"
    /\ LET c == calls[i]
           populatedComment == comments[c.oid]
       IN  calls' = Step(i,
              IF fault THEN ServerError(c, c.post, TRUE)
              ELSE [Answer(c, 200, c.post) EXCEPT
                      !.ret = populatedComment[Len(populatedComment)]])
    /\ UNCHANGED <<store, browse>>

----------------------------------------------------------------------------
(* POST /:id/favorite *)

\* The request arrives: Recipe.findById is issued.
FavoriteRequest(u, id) ==
    /\ calls' = Append(calls, NewCall("favorite", u, id, 0, << >>, "find", 0))
    /\ UNCHANGED <<store, browse>>

\* Recipe.findById returns: 404 if null, else User.findById is issued.
FavoriteFindRecipe(i, fault) ==
    /\ i \in DOMAIN calls
    /\ calls[i].op = "favorite" /\ calls[i].pc = "find"
    /\ LET c == calls[i]
           oid == CastObjectId(c.id)
       IN  calls' = Step(i,
              IF oid = CastError \/ fault THEN ServerError(c, Snapshot, fault)
              ELSE IF ~Exists(oid) THEN Answer(c, 404, Snapshot)
              ELSE [c EXCEPT !.pc = "findUser", !.oid = oid])
    /\ UNCHANGED <<store, browse>>

\* User.findById returns: 400 if the loaded favoriteRecipes include the
\* recipe, else it is pushed on the loaded copy and save() is issued.
FavoriteFindUser(i, fault) ==
    /\ i \in DOMAIN calls
    /\ calls[i].op = "favorite" /\ calls[i].pc = "findUser"
    /\ LET c == calls[i]
       IN  calls' = Step(i,
              IF fault THEN ServerError(c, Snapshot, TRUE)
              ELSE IF Includes(favoriteRecipes[c.user], c.oid)
              THEN Answer(c, 400, Snapshot)
              ELSE [c EXCEPT !.pc = "save", !.doc = favoriteRecipes[c.user],
                      !.lv = userV[c.user], !.delta = Push(c.oid)])
    /\ UNCHANGED <<store, browse>>

\* user.save() completes and the handler answers (both favorite routes).
UserSave(i, fault) ==
    /\ i \in DOMAIN calls
    /\ calls[i].pc = "save"
    /\ LET c == calls[i]
           d == c.delta
       IN  IF d.kind = "none"
           THEN /\ UNCHANGED <<store, browse>>
                /\ calls' = Step(i, Answer(c, 200, Snapshot))
           ELSE IF fault \/ (VersionWhere(d) /\ userV[c.user] # c.lv)
           THEN /\ UNCHANGED <<store, browse>>
                /\ calls' = Step(i, ServerError(c, Snapshot, fault))
           ELSE /\ favoriteRecipes' =
                      [favoriteRecipes EXCEPT ![c.user] = ApplyDelta(@, c.doc, d)]
                /\ userV' = [userV EXCEPT
                                ![c.user] = IF VersionInc(d) THEN @ + 1 ELSE @]
                /\ UNCHANGED <<ratings, comments, recipeV, browse>>
                /\ calls' = Step(i, [Answer(c, 200, Snapshot') EXCEPT !.wrote = TRUE])

FavoriteSave(i, fault) ==
    /\ i \in DOMAIN calls
    /\ calls[i].op = "favorite"
    /\ UserSave(i, fault)

----------------------------------------------------------------------------
(* DELETE /:id/favorite *)

\* The request arrives: User.findById is issued.
UnfavoriteRequest(u, id) ==
    /\ calls' = Append(calls, NewCall("unfavorite", u, id, 0, << >>, "findUser", 0))
    /\ UNCHANGED <<store, browse>>

\* The change the handler makes to the loaded favoriteRecipes: they are
\* replaced by those whose hex string differs from the id parameter (no
\* change if all differ).
UnfavoriteDelta(doc, id) ==
    IF FilterOut(doc, id) = doc THEN NoDelta ELSE SetArray(FilterOut(doc, id))

\* User.findById returns: the loaded copy is changed and save() is issued.
UnfavoriteFindUser(i, fault) ==
    /\ i \in DOMAIN calls
    /\ calls[i].op = "unfavorite" /\ calls[i].pc = "findUser"
    /\ LET c == calls[i]
       IN  calls' = Step(i,
              IF fault THEN ServerError(c, Snapshot, TRUE)
              ELSE [c EXCEPT !.pc = "save", !.doc = favoriteRecipes[c.user],
                      !.lv = userV[c.user],
                      !.delta = UnfavoriteDelta(favoriteRecipes[c.user], c.id)])
    /\ UNCHANGED <<store, browse>>

UnfavoriteSave(i, fault) ==
    /\ i \in DOMAIN calls
    /\ calls[i].op = "unfavorite"
    /\ UserSave(i, fault)

----------------------------------------------------------------------------
(* Recipe documents *)

\* Strings of requests and documents the code takes apart (parseInt, split)
\* or compares are sequences of characters.
Italian == <<"I", "t">>
French == <<"F", "r">>
Vegan == <<"V", "g">>
Regular == <<"R", "g">>
Easy == <<"E", "z">>
Hard == <<"H", "d">>
Egg == <<"e", "g", "g">>
Oil == <<"o", "i", "l">>
Rice == <<"r", "i", "c", "e">>

\* hex strings of ObjectIds, in ascending order
HexIds ==
    <<"a1", "b2", "c3", "c4", "c5", "c6", "c7", "c8", "c9",
      "d1", "d2", "d3", "d4", "d5", "d6", "d7", "d8", "d9",
      "e1", "e2", "e3", "e4", "e5", "e6", "e7", "e8", "e9">>

\* the place of an ObjectId in the ascending order of ObjectIds
IdRank(oid) == CHOOSE k \in 1..Len(HexIds) : HexIds[k] = toHexString(oid)

\* A Number field of a document holds tenths (205 is 20.5).  An optional
\* Number field of a document:
NoNumber == [set |-> FALSE, n |-> 0]
Number(n) == [set |-> TRUE, n |-> n]

\* A Recipe document: the fields the listing routes filter and sort by, and
\* author.  Its ratings and comments are ratings[_id] and comments[_id].
Doc(id, author, at, cuisine, diet, difficulty, prep, cook, cal, names) ==
    [_id |-> id, author |-> author, createdAt |-> at, cuisine |-> cuisine,
     diet |-> diet, difficulty |-> difficulty, prepTime |-> prep,
     cookTime |-> cook, calories |-> cal,
     ingredients |-> [k \in DOMAIN names |-> [name |-> names[k]]]]

Ids(docs) == {docs[k]._id : k \in DOMAIN docs}

\* the two recipes of the engagement requests
SeedCatalog ==
    <<Doc(ObjectId("a1"), ObjectId("u1"), 1, Italian, Vegan, Easy, 200, 300,
          Number(5000), <<Egg, Oil>>),
      Doc(ObjectId("b2"), ObjectId("u2"), 2, French, Regular, Hard, 100, 100,
          NoNumber, <<Rice>>)>>

----------------------------------------------------------------------------
(* GET / *)

\* a parameter of req.query: absent, or the string given
Undefined == [given |-> FALSE, s |-> << >>]
Str(s) == [given |-> TRUE, s |-> s]

\* if (req.query.x): a string is truthy unless empty
Truthy(v) == v.given /\ v.s # << >>

\* a JavaScript number: an integer or NaN
NaN == [nan |-> TRUE, n |-> 0]
Num(n) == [nan |-> FALSE, n |-> n]

Digits == <<"0", "1", "2", "3", "4", "5", "6", "7", "8", "9">>
IsDigit(ch) == \E d \in 1..10 : Digits[d] = ch
DigitValue(ch) == (CHOOSE d \in 1..10 : Digits[d] = ch) - 1

\* the value of the digits of s from position i up to the first other character
RECURSIVE ParseDigits(_, _, _)
ParseDigits(s, i, acc) ==
    IF i > Len(s) \/ ~IsDigit(s[i]) THEN acc
    ELSE ParseDigits(s, i + 1, acc * 10 + DigitValue(s[i]))

\* parseInt(v): leading white space is skipped, then a sign and the longest
\* run of digits are read; NaN without a digit there, and of undefined.
parseInt(v) ==
    IF ~v.given THEN NaN
    ELSE LET t == TrimLeft(v.s)
             signed == t # << >> /\ t[1] \in {"-", "+"}
             d == IF signed THEN Tail(t) ELSE t
         IN  IF d = << >> \/ ~IsDigit(d[1]) THEN NaN
             ELSE IF signed /\ t[1] = "-" THEN Num(0 - ParseDigits(d, 1, 0))
             ELSE Num(ParseDigits(d, 1, 0))

\* parseInt(v) || d: NaN and 0 are falsy
OrDefault(x, d) == IF x.nan \/ x.n = 0 THEN d ELSE x.n

DefaultPage == 1
DefaultLimit == 12
PopularLimit == 12

\* s.split(','), from position i on with cur the piece begun
RECURSIVE SplitFrom(_, _, _)
SplitFrom(s, i, cur) ==
    IF i > Len(s) THEN <<cur>>
    ELSE IF s[i] = "," THEN <<cur>> \o SplitFrom(s, i + 1, << >>)
    ELSE SplitFrom(s, i + 1, Append(cur, s[i]))

Split(s) == SplitFrom(s, 1, << >>)

\* a condition of the filter object on a field: none, or { $lte: x }
NoLte == [set |-> FALSE, lte |-> NaN]
Lte(x) == [set |-> TRUE, lte |-> x]
\* none, or { $in: names }
NoIn == [set |-> FALSE, in |-> << >>]
In(names) == [set |-> TRUE, in |-> names]

\* the filter object built from req.query (the requests of the model carry
\* no search parameter)
BuildFilter(q) ==
    [cuisine |-> IF Truthy(q.cuisine) THEN q.cuisine ELSE Undefined,
     diet |-> IF Truthy(q.diet) THEN q.diet ELSE Undefined,
     difficulty |-> IF Truthy(q.difficulty) THEN q.difficulty ELSE Undefined,
     prepTime |-> IF Truthy(q.maxPrepTime) THEN Lte(parseInt(q.maxPrepTime)) ELSE NoLte,
     cookTime |-> IF Truthy(q.maxCookTime) THEN Lte(parseInt(q.maxCookTime)) ELSE NoLte,
     calories |-> IF Truthy(q.maxCalories) THEN Lte(parseInt(q.maxCalories)) ELSE NoLte,
     ingredients |-> IF Truthy(q.ingredients) THEN In(Split(q.ingredients.s)) ELSE NoIn]

\* Casting the filter to the schema: NaN is no Number (CastError).
FilterCasts(f) ==
    /\ f.prepTime.set => ~f.prepTime.lte.nan
    /\ f.cookTime.set => ~f.cookTime.lte.nan
    /\ f.calories.set => ~f.calories.lte.nan

\* the document satisfies every condition of the filter object; $lte does not
\* match a document without the field
Matches(f, doc) ==
    /\ f.cuisine.given => doc.cuisine = f.cuisine.s
    /\ f.diet.given => doc.diet = f.diet.s
    /\ f.difficulty.given => doc.difficulty = f.difficulty.s
    /\ f.prepTime.set => doc.prepTime <= 10 * f.prepTime.lte.n
    /\ f.cookTime.set => doc.cookTime <= 10 * f.cookTime.lte.n
    /\ f.calories.set => doc.calories.set /\ doc.calories.n <= 10 * f.calories.lte.n
    /\ f.ingredients.set =>
          \E k \in DOMAIN doc.ingredients, j \in DOMAIN f.ingredients.in :
              doc.ingredients[k].name = f.ingredients.in[j]

\* Recipe.find(filter): the matching documents in natural order
Find(f) == SelectSeq(catalog, LAMBDA doc : Matches(f, doc))

\* docs is in the order of sort({ createdAt: -1 })
SortedByCreatedAtDesc(docs) ==
    \A k \in 1..(Len(docs) - 1) : docs[k].createdAt >= docs[k + 1].createdAt

\* doc put into the sorted docs behind the documents not older than it
RECURSIVE InsertByCreatedAt(_, _)
InsertByCreatedAt(docs, doc) ==
    IF docs = << >> THEN <<doc>>
    ELSE IF docs[1].createdAt >= doc.createdAt
         THEN <<docs[1]>> \o InsertByCreatedAt(Tail(docs), doc)
    ELSE <<doc>> \o docs

RECURSIVE SortFrom(_, _, _)
SortFrom(docs, k, acc) ==
    IF k > Len(docs) THEN acc
    ELSE SortFrom(docs, k + 1, InsertByCreatedAt(acc, docs[k]))

HasTies(docs) ==
    \E j, k \in DOMAIN docs : j # k /\ docs[j].createdAt = docs[k].createdAt

\* The results sort({ createdAt: -1 }) can give: the store fixes no order
\* among documents of equal createdAt.
SortOutcomes(docs) ==
    IF ~HasTies(docs) THEN {SortFrom(docs, 1, << >>)}
    ELSE {o \in {[k \in DOMAIN docs |-> docs[p[k]]] : p \in Permutations(DOMAIN docs)} :
             SortedByCreatedAtDesc(o)}

Abs(n) == IF n < 0 THEN 0 - n ELSE n
Min(a, b) == IF a < b THEN a ELSE b

\* skip(skip).limit(limit) of the sorted documents; a negative limit asks for
\* a single batch of that many documents
SkipLimit(docs, skip, limit) == SubSeq(docs, skip + 1, Min(Len(docs), skip + Abs(limit)))

\* Ceil with the quotient truncated, not rounded up
CeilTruncated(a, b) == IF b > 0 THEN a \div b ELSE 0 - (a \div (0 - b))

\* Math.ceil(a / b) for a >= 0 and b # 0
Ceil(a, b) == IF b > 0 THEN (a + b - 1) \div b ELSE 0 - (a \div (0 - b))

NoPagination ==
    [currentPage |-> 0, totalPages |-> 0, totalRecipes |-> 0,
     hasNext |-> FALSE, hasPrev |-> FALSE]

\* A listing request whose handler has reached its first await or has
\* answered.  recipes and pagination are the body of the answer; of a request
\* for one recipe, id is the parameter, loaded the ratings of the document
\* found and averageRating the value of its virtual.
NewRequest(op, q, page, limit, filter) ==
    [op |-> op, query |-> q, pc |-> "find", page |-> page, limit |-> limit,
     skip |-> (page - 1) * limit, filter |-> filter, recipes |-> << >>,
     pagination |-> NoPagination, status |-> 0, fault |-> FALSE,
     id |-> "", loaded |-> << >>, averageRating |-> [string |-> FALSE, tenths |-> 0]]

Reply(r, code) == [r EXCEPT !.pc = "done", !.status = code]

Throw(r, fault) == [Reply(r, 500) EXCEPT !.fault = fault, !.recipes = << >>]

\* The request arrives: page, limit, skip and the filter object are computed
\* and find is issued.
ListRequest(q) ==
    /\ requests' = Append(requests,
            NewRequest("list", q, OrDefault(parseInt(q.page), DefaultPage),
                       OrDefault(parseInt(q.limit), DefaultLimit), BuildFilter(q)))
    /\ UNCHANGED <<store, calls, catalog>>

\* find returns the page (a cast error of the filter and a negative skip
\* throw); countDocuments is issued.
ListFind(i, fault) ==
    /\ i \in DOMAIN requests
    /\ requests[i].op = "list" /\ requests[i].pc = "find"
    /\ LET r == requests[i]
       IN  IF fault \/ ~FilterCasts(r.filter) \/ r.skip < 0
           THEN requests' = [requests EXCEPT ![i] = Throw(r, fault)]
           ELSE \E o \in SortOutcomes(Find(r.filter)) :
                  requests' = [requests EXCEPT ![i] =
                      [r EXCEPT !.pc = "count",
                                !.recipes = SkipLimit(o, r.skip, r.limit)]]
    /\ UNCHANGED <<store, calls, catalog>>

\* countDocuments returns and the handler answers.
ListCount(i, fault) ==
    /\ i \in DOMAIN requests
    /\ requests[i].op = "list" /\ requests[i].pc = "count"
    /\ LET r == requests[i]
           total == Len(Find(r.filter))
       IN  requests' = [requests EXCEPT ![i] =
              IF fault THEN Throw(r, TRUE)
              ELSE [Reply(r, 200) EXCEPT !.pagination =
                      [currentPage |-> r.page,
                       totalPages |-> Ceil(total, r.limit),
                       totalRecipes |-> total,
                       hasNext |-> r.page < Ceil(total, r.limit),
                       hasPrev |-> r.page > 1]]]
    /\ UNCHANGED <<store, calls, catalog>>

----------------------------------------------------------------------------
(* averageRating *)

\* the sum of the rating values (reduce)
RECURSIVE SumFrom(_, _)
SumFrom(arr, k) == IF k > Len(arr) THEN 0 ELSE arr[k].rating + SumFrom(arr, k + 1)

\* the number of binary digits of n > 0
RECURSIVE BitLength(_)
BitLength(n) == IF n = 0 THEN 0 ELSE 1 + BitLength(n \div 2)

SignificandBits == 53

\* The binary digits of sum / n behind the first f fraction digits: the
\* remainder r of the long division after f digits, and the last digit.
RECURSIVE Remainder(_, _, _, _)
Remainder(r, n, f, last) ==
    IF f = 0 THEN [r |-> r, last |-> last]
    ELSE Remainder((2 * r) % n, n, f - 1, (2 * r) \div n)

\* The double sum / n is the quotient rounded to 53 significant binary
\* digits, to the nearest and to even in the middle: 1 if it is above the
\* quotient, -1 if below, 0 if the quotient is a double.
DoubleAgainstQuotient(sum, n) ==
    LET f == SignificandBits - BitLength(sum \div n)
        d == Remainder(sum % n, n, f, (sum \div n) % 2)
    IN  IF d.r = 0 THEN 0
        ELSE IF 2 * d.r > n THEN 1
        ELSE IF 2 * d.r < n THEN -1
        ELSE IF d.last = 1 THEN 1 ELSE -1

\* (sum / n).toFixed(1), in tenths: the multiple of 0.1 nearest to the double,
\* the larger one if two are equally near.
toFixed(sum, n) ==
    LET m == (10 * sum) \div n
        rest == (10 * sum) % n
    IN  IF 2 * rest < n THEN m
        ELSE IF 2 * rest > n THEN m + 1
        ELSE IF DoubleAgainstQuotient(sum, n) >= 0 THEN m + 1 ELSE m

\* the virtual averageRating of a document with these ratings: the number 0,
\* or the string toFixed gives
averageRating(arr) ==
    IF Len(arr) = 0 THEN [string |-> FALSE, tenths |-> 0]
    ELSE [string |-> TRUE, tenths |-> toFixed(SumFrom(arr, 1), Len(arr))]

----------------------------------------------------------------------------
(* GET /:id *)

\* The request arrives: findById is issued.
GetRequest(id) ==
    /\ requests' = Append(requests,
            [NewRequest("get", Undefined, 0, 0, Undefined) EXCEPT !.id = id])
    /\ UNCHANGED <<store, calls, catalog>>

\* findById returns: 404 if null, else the document is the answer.
GetFind(i, fault) ==
    /\ i \in DOMAIN requests
    /\ requests[i].op = "get" /\ requests[i].pc = "find"
    /\ LET r == requests[i]
           oid == CastObjectId(r.id)
       IN  requests' = [requests EXCEPT ![i] =
              IF oid = CastError \/ fault THEN Throw(r, fault)
              ELSE IF oid \notin DOMAIN ratings THEN Reply(r, 404)
              ELSE [Reply(r, 200) EXCEPT !.loaded = ratings[oid],
                                         !.averageRating = averageRating(ratings[oid])]]
    /\ UNCHANGED <<store, calls, catalog>>

----------------------------------------------------------------------------
(* GET /popular *)

\* the key of sort({ 'ratings.rating': -1 }) of a document: the greatest
\* value of the array, and less than any value if the array is empty
RECURSIVE MaxFrom(_, _)
MaxFrom(arr, k) ==
    IF k > Len(arr) THEN 0
    ELSE IF arr[k].rating > MaxFrom(arr, k + 1) THEN arr[k].rating
    ELSE MaxFrom(arr, k + 1)

SortKey(doc) == MaxFrom(ratings[doc._id], 1)

\* a comes before b in sort({ 'ratings.rating': -1, createdAt: -1 })
Before(a, b) ==
    \/ SortKey(a) > SortKey(b)
    \/ SortKey(a) = SortKey(b) /\ a.createdAt > b.createdAt

SameRank(a, b) == SortKey(a) = SortKey(b) /\ a.createdAt = b.createdAt

RECURSIVE InsertPopular(_, _)
InsertPopular(docs, doc) ==
    IF docs = << >> THEN <<doc>>
    ELSE IF Before(doc, docs[1]) THEN <<doc>> \o docs
    ELSE <<docs[1]>> \o InsertPopular(Tail(docs), doc)

RECURSIVE SortPopularFrom(_, _, _)
SortPopularFrom(docs, k, acc) ==
    IF k > Len(docs) THEN acc
    ELSE SortPopularFrom(docs, k + 1, InsertPopular(acc, docs[k]))

\* The results the sort can give: the store fixes no order among documents
\* of equal key and createdAt.
PopularOutcomes(docs) ==
    IF ~\E j, k \in DOMAIN docs : j # k /\ SameRank(docs[j], docs[k])
    THEN {SortPopularFrom(docs, 1, << >>)}
    ELSE {o \in {[k \in DOMAIN docs |-> docs[p[k]]] : p \in Permutations(DOMAIN docs)} :
             \A k \in 1..(Len(o) - 1) : ~Before(o[k + 1], o[k])}

\* The request arrives: find is issued.
PopularRequest ==
    /\ requests' = Append(requests,
            NewRequest("popular", Undefined, 1, PopularLimit, Undefined))
    /\ UNCHANGED <<store, calls, catalog>>

\* find returns and the handler answers.
PopularFind(i, fault) ==
    /\ i \in DOMAIN requests
    /\ requests[i].op = "popular" /\ requests[i].pc = "find"
    /\ LET r == requests[i]
       IN  IF fault THEN requests' = [requests EXCEPT ![i] = Throw(r, TRUE)]
           ELSE \E o \in PopularOutcomes(catalog) :
                  requests' = [requests EXCEPT ![i] =
                      [Reply(r, 200) EXCEPT !.recipes = SkipLimit(o, 0, r.limit)]]
    /\ UNCHANGED <<store, calls, catalog>>

----------------------------------------------------------------------------
(* POST / *)

\* Date.now() when the create requests arrive
Now == 3

\* the _id new Recipe() gives the document: one no document has
NewId == ObjectId(HexIds[Len(SeedCatalog) + 1
                         + Cardinality({k \in DOMAIN calls : calls[k].op = "create"})])

\* The request arrives: validationResult (400 on an empty title), then the
\* document is made of req.body with author set to req.user._id and save()
\* is issued.
CreateRequest(u, body) ==
    /\ calls' = Append(calls,
            IF body.title = << >>
            THEN [NewCall("create", u, "", 0, << >>, "done", 400) EXCEPT !.body = body]
            ELSE [NewCall("create", u, "", 0, << >>, "save", 0) EXCEPT
                     !.body = [body EXCEPT !.author = u], !.oid = NewId])
    /\ UNCHANGED <<store, browse>>

\* the schema validators of the ratings and comments of a new document
ValidRating(e) == e.rating >= MinRating /\ e.rating <= MaxRating

ValidDocument(body) ==
    /\ \A k \in DOMAIN body.ratings : ValidRating(body.ratings[k])
    /\ \A k \in DOMAIN body.comments :
          ValidComment([body.comments[k] EXCEPT !.text = Trim(@)])

\* save() of the new document completes (a document the schema rejects is not
\* stored and save() throws); findById is issued.
CreateSave(i, fault) ==
    /\ i \in DOMAIN calls
    /\ calls[i].op = "create" /\ calls[i].pc = "save"
    /\ LET c == calls[i]
       IN  IF fault \/ ~ValidDocument(c.body)
           THEN /\ UNCHANGED <<store, browse>>
                /\ calls' = Step(i, ServerError(c, Snapshot, fault))
           ELSE /\ catalog' = Append(catalog,
                      Doc(c.oid, c.body.author, Now, Italian, Vegan, Easy,
                          200, 300, Number(5000), <<Egg>>))
                /\ ratings' = (c.oid :> c.body.ratings) @@ ratings
                /\ comments' = (c.oid :>
                      [k \in DOMAIN c.body.comments |->
                          [c.body.comments[k] EXCEPT !.text = Trim(@)]]) @@ comments
                /\ recipeV' = (c.oid :> 0) @@ recipeV
                /\ UNCHANGED <<favoriteRecipes, userV, requests>>
                /\ calls' = Step(i, [c EXCEPT !.pc = "reread", !.wrote = TRUE,
                                              !.post = Snapshot'])

\* findById of the new document returns and the handler answers 201.
CreateFind(i, fault) ==
    /\ i \in DOMAIN calls
    /\ calls[i].op = "create" /\ calls[i].pc = "reread"
    /\ calls' = Step(i, IF fault THEN ServerError(calls[i], Snapshot, TRUE)
                        ELSE Answer(calls[i], 201, Snapshot))
    /\ UNCHANGED <<store, browse>>

\* create requests: with and without author, ratings and comments in the body
BodyInputs ==
    {Body(t, a, rs, cs) :
        t \in {<< >>, <<"S">>},
        a \in {NoAuthor, ObjectId("u2")},
        rs \in {<< >>, <<[user |-> ObjectId("u2"), rating |-> 5]>>,
                <<[user |-> ObjectId("u2"), rating |-> 9]>>},
        cs \in {<< >>, <<[user |-> ObjectId("u2"), text |-> <<"h", "i", " ">>, _id |-> 0]>>}}

\* create, rate and comment requests
MaxCreateCalls == 2

CreateIdInputs == {"a1", "c3"}

----------------------------------------------------------------------------
(* Requests of the listing routes *)

\* Collections of the listing requests: none, three recipes of which two
\* were created at the same time, and 27 recipes of which 25 are Italian.
EmptyCatalog == << >>

TiedCatalog ==
    <<Doc(ObjectId("a1"), ObjectId("u1"), 2, Italian, Vegan, Easy, 200, 300,
          Number(5000), <<Egg, Oil>>),
      Doc(ObjectId("b2"), ObjectId("u2"), 2, Italian, Regular, Hard, 100, 100,
          NoNumber, <<Rice>>),
      Doc(ObjectId("c3"), ObjectId("u1"), 1, Italian, Vegan, Easy, 250, 300,
          Number(5000), <<Egg>>)>>

LargeCatalog ==
    [k \in DOMAIN HexIds |->
        Doc(ObjectId(HexIds[k]), ObjectId("u1"), k,
            IF k \in {5, 20} THEN French ELSE Italian,
            Vegan, Easy, 200, 300, Number(5000), <<Egg>>)]

PageCatalogs == {EmptyCatalog, TiedCatalog, LargeCatalog}

\* req.query of a listing request
Query(page, limit, cuisine, diet, difficulty, prep, cook, cal, names) ==
    [page |-> page, limit |-> limit, cuisine |-> cuisine, diet |-> diet,
     difficulty |-> difficulty, maxPrepTime |-> prep, maxCookTime |-> cook,
     maxCalories |-> cal, ingredients |-> names]

PageInputs == {Undefined, Str(<<"1">>), Str(<<"2">>), Str(<<"3">>), Str(<<"4">>)}
LimitInputs == {Undefined, Str(<<"1", "2">>), Str(<<"1">>), Str(<<"0">>), Str(<<"-", "5">>)}
\* no recipe has the cuisine Rice
CuisineInputs == {Str(Italian), Str(Rice)}

PageQueries ==
    {Query(p, l, c, Undefined, Undefined, Undefined, Undefined, Undefined, Undefined) :
        p \in PageInputs, l \in LimitInputs, c \in CuisineInputs}

\* listing requests of one walk through the pages
MaxPageRequests == 2

\* a collection whose recipes differ in every field the filter reads
FilterCatalog ==
    <<Doc(ObjectId("a1"), ObjectId("u1"), 1, Italian, Vegan, Easy, 200, 300,
          Number(5000), <<Egg, Oil>>),
      Doc(ObjectId("b2"), ObjectId("u2"), 2, Italian, Vegan, Easy, 250, 300,
          Number(5000), <<Egg>>),
      Doc(ObjectId("c3"), ObjectId("u1"), 3, French, Regular, Hard, 100, 100,
          NoNumber, <<Rice>>),
      Doc(ObjectId("c4"), ObjectId("u2"), 4, Italian, Regular, Easy, 205, 450,
          Number(6000), <<Oil>>),
      Doc(ObjectId("c5"), ObjectId("u1"), 5, Italian, Vegan, Hard, 50, 50,
          Number(1000), <<Rice>>)>>

FilterCatalogs == {FilterCatalog, SeedCatalog}

NotANumber == Str(<<"a", "b", "c">>)

FilterQueries ==
    {Query(Undefined, Undefined, c, d, f, p, k, cal, n) :
        c \in {Undefined, Str(Italian)},
        d \in {Undefined, Str(Vegan)},
        f \in {Undefined, Str(Easy)},
        p \in {Undefined, Str(<<"2", "0">>), Str(<<"2", "0", ".", "5">>), NotANumber},
        k \in {Undefined, Str(<<"3", "0">>)},
        cal \in {Undefined, Str(<<"5", "0", "0">>), NotANumber},
        n \in {Undefined, Str(Egg \o <<",">> \o Oil)}}

\* listing requests with filter parameters
MaxFilterRequests == 1

\* the user of the k-th rating of a stored array
Rater(k) == ObjectId("u" \o ToString(k))

\* a stored ratings array of these values, each of another user
RatingsOf(values) == [k \in DOMAIN values |-> [user |-> Rater(k), rating |-> values[k]]]

PopularRatingInputs ==
    {RatingsOf(v) : v \in {<< >>, <<1>>, <<4>>, <<5>>, <<4, 4>>, <<5, 1>>}}

\* every recipe of the large collection has one rating
LargeRatings == [r \in Ids(LargeCatalog) |-> RatingsOf(<<1 + (IdRank(r) % 5)>>)]

PopularCatalogs == {SeedCatalog, TiedCatalog, LargeCatalog}

\* requests of the popular listing
MaxPopularRequests == 1

\* the ratings of a recipe: up to MaxRatings of them
MaxRatings == 20

RatingValues == MinRating..MaxRating

AverageInputs ==
    {RatingsOf(v) : v \in {<< >>} \cup UNION {[1..n -> RatingValues] : n \in 1..3}}
    \cup {RatingsOf([k \in 1..n |-> IF k <= a THEN 5 ELSE 4]) : n \in 4..MaxRatings, a \in 0..MaxRatings}

\* requests for one recipe
MaxGetRequests == 1

----------------------------------------------------------------------------
(* Specifications *)

Init ==
    /\ ratings = [r \in Recipes |-> << >>]
    /\ comments = [r \in Recipes |-> << >>]
    /\ recipeV = [r \in Recipes |-> 0]
    /\ favoriteRecipes = [u \in Users |-> << >>]
    /\ userV = [u \in Users |-> 0]
    /\ calls = << >>
    /\ catalog = SeedCatalog
    /\ requests = << >>

\* rate requests of every user on every id
NextRate ==
    \/ /\ Len(calls) < MaxCalls
       /\ \E u \in Users, id \in IdInputs, r \in RatingInputs : RateRequest(u, id, r)
    \/ \E i \in 1..MaxCalls, fault \in BOOLEAN : RateFind(i, fault)
    \/ \E i \in 1..MaxCalls, fault \in BOOLEAN : RateSave(i, fault)

SpecRate == Init /\ [][NextRate]_vars

\* more rate requests, of one user on one recipe
NextRateSameUser ==
    \/ /\ Len(calls) < MaxSameUserCalls
       /\ \E r \in SameUserRatings : RateRequest(SameUser, SameRecipe, r)
    \/ \E i \in 1..MaxSameUserCalls, fault \in BOOLEAN : RateFind(i, fault)
    \/ \E i \in 1..MaxSameUserCalls, fault \in BOOLEAN : RateSave(i, fault)

SpecRateSameUser == Init /\ [][NextRateSameUser]_vars

\* rate requests on one recipe, each of another user
NextRateDistinctUsers ==
    \/ /\ Len(calls) < MaxRaters
       /\ Len(calls) < Len(Raters)
       /\ \E r \in SameUserRatings :
             RateRequest(Raters[Len(calls) + 1], SameRecipe, r)
    \/ \E i \in 1..MaxRaters, fault \in BOOLEAN : RateFind(i, fault)
    \/ \E i \in 1..MaxRaters, fault \in BOOLEAN : RateSave(i, fault)

SpecRateDistinctUsers == Init /\ [][NextRateDistinctUsers]_vars

\* comment requests
NextComment ==
    \/ /\ Len(calls) < MaxCalls
       /\ \E u \in Users, id \in CommentIdInputs, t \in TextInputs :
             CommentRequest(u, id, t)
    \/ \E i \in 1..MaxCalls, fault \in BOOLEAN : CommentFind(i, fault)
    \/ \E i \in 1..MaxCalls, fault \in BOOLEAN : CommentSave(i, fault)
    \/ \E i \in 1..MaxCalls, fault \in BOOLEAN : CommentReread(i, fault)

SpecComment == Init /\ [][NextComment]_vars

\* requests of the two favorite routes
NextFavorite ==
    \/ /\ Len(calls) < MaxCalls
       /\ \E u \in Users, id \in IdInputs : FavoriteRequest(u, id)
    \/ \E i \in 1..MaxCalls, fault \in BOOLEAN : FavoriteFindRecipe(i, fault)
    \/ \E i \in 1..MaxCalls, fault \in BOOLEAN : FavoriteFindUser(i, fault)
    \/ \E i \in 1..MaxCalls, fault \in BOOLEAN : FavoriteSave(i, fault)
    \/ /\ Len(calls) < MaxCalls
       /\ \E u \in Users, id \in UnfavoriteIdInputs : UnfavoriteRequest(u, id)
    \/ \E i \in 1..MaxCalls, fault \in BOOLEAN : UnfavoriteFindUser(i, fault)
    \/ \E i \in 1..MaxCalls, fault \in BOOLEAN : UnfavoriteSave(i, fault)

SpecFavorite == Init /\ [][NextFavorite]_vars

\* requests of all four routes
Next == NextRate \/ NextComment \/ NextFavorite

Spec == Init /\ [][Next]_vars

\* the engagement arrays and users of a collection nobody has rated yet
InitStore ==
    /\ ratings = [r \in Ids(catalog) |-> << >>]
    /\ comments = [r \in Ids(catalog) |-> << >>]
    /\ recipeV = [r \in Ids(catalog) |-> 0]
    /\ favoriteRecipes = [u \in Users |-> << >>]
    /\ userV = [u \in Users |-> 0]
    /\ calls = << >>

InitPages ==
    /\ catalog \in PageCatalogs
    /\ requests = << >>
    /\ InitStore

\* a client walks the pages of one listing: every request has the limit and
\* the filter parameters of the first one
NextPages ==
    \/ /\ Len(requests) < MaxPageRequests
       /\ \E q \in PageQueries :
            /\ requests # << >> =>
                  /\ q.limit = requests[1].query.limit
                  /\ q.cuisine = requests[1].query.cuisine
            /\ ListRequest(q)
    \/ \E i \in 1..MaxPageRequests, fault \in BOOLEAN : ListFind(i, fault)
    \/ \E i \in 1..MaxPageRequests, fault \in BOOLEAN : ListCount(i, fault)

SpecPages == InitPages /\ [][NextPages]_vars


InitFilter ==
    /\ catalog \in FilterCatalogs
    /\ requests = << >>
    /\ InitStore

\* listing requests of page 1 with any of the filter parameters
NextFilter ==
    \/ /\ Len(requests) < MaxFilterRequests
       /\ \E q \in FilterQueries : ListRequest(q)
    \/ \E i \in 1..MaxFilterRequests, fault \in BOOLEAN : ListFind(i, fault)
    \/ \E i \in 1..MaxFilterRequests, fault \in BOOLEAN : ListCount(i, fault)

SpecFilter == InitFilter /\ [][NextFilter]_vars

InitPopular ==
    /\ catalog \in PopularCatalogs
    /\ ratings \in IF catalog = LargeCatalog THEN {LargeRatings}
                   ELSE [Ids(catalog) -> PopularRatingInputs]
    /\ comments = [r \in Ids(catalog) |-> << >>]
    /\ recipeV = [r \in Ids(catalog) |-> 0]
    /\ favoriteRecipes = [u \in Users |-> << >>]
    /\ userV = [u \in Users |-> 0]
    /\ calls = << >>
    /\ requests = << >>

\* requests of the popular listing
NextPopular ==
    \/ Len(requests) < MaxPopularRequests /\ PopularRequest
    \/ \E i \in 1..MaxPopularRequests, fault \in BOOLEAN : PopularFind(i, fault)

SpecPopular == InitPopular /\ [][NextPopular]_vars

InitAverage ==
    /\ catalog = SeedCatalog
    /\ ratings \in {[r \in Ids(catalog) |-> IF r = ObjectId(SameRecipe) THEN arr ELSE << >>] :
                       arr \in AverageInputs}
    /\ comments = [r \in Ids(catalog) |-> << >>]
    /\ recipeV = [r \in Ids(catalog) |-> 0]
    /\ favoriteRecipes = [u \in Users |-> << >>]
    /\ userV = [u \in Users |-> 0]
    /\ calls = << >>
    /\ requests = << >>

\* requests for one recipe
NextAverage ==
    \/ /\ Len(requests) < MaxGetRequests
       /\ \E id \in IdInputs : GetRequest(id)
    \/ \E i \in 1..MaxGetRequests, fault \in BOOLEAN : GetFind(i, fault)

SpecAverage == InitAverage /\ [][NextAverage]_vars

\* rate and comment requests on the two recipes
MaxEngageCalls == 2

EngageIdInputs == {"a1", "b2"}
EngageTextInputs == {<<"h", "i">>}

NextEngage ==
    \/ /\ Len(calls) < MaxEngageCalls
       /\ \E u \in Users, id \in EngageIdInputs, r \in SameUserRatings :
             RateRequest(u, id, r)
    \/ \E i \in 1..MaxEngageCalls, fault \in BOOLEAN : RateFind(i, fault)
    \/ \E i \in 1..MaxEngageCalls, fault \in BOOLEAN : RateSave(i, fault)
    \/ /\ Len(calls) < MaxEngageCalls
       /\ \E id \in EngageIdInputs, t \in EngageTextInputs :
             CommentRequest(SameUser, id, t)
    \/ \E i \in 1..MaxEngageCalls, fault \in BOOLEAN : CommentFind(i, fault)
    \/ \E i \in 1..MaxEngageCalls, fault \in BOOLEAN : CommentSave(i, fault)
    \/ \E i \in 1..MaxEngageCalls, fault \in BOOLEAN : CommentReread(i, fault)

SpecEngage == Init /\ [][NextEngage]_vars

\* create requests, and rate and comment requests on a recipe of the
\* collection and on the first recipe created
NextCreate ==
    \/ /\ Len(calls) < MaxCreateCalls
       /\ \E u \in Users, body \in BodyInputs : CreateRequest(u, body)
    \/ \E i \in 1..MaxCreateCalls, fault \in BOOLEAN : CreateSave(i, fault)
    \/ \E i \in 1..MaxCreateCalls, fault \in BOOLEAN : CreateFind(i, fault)
    \/ /\ Len(calls) < MaxCreateCalls
       /\ \E id \in CreateIdInputs : RateRequest(SameUser, id, MaxRating)
    \/ \E i \in 1..MaxCreateCalls, fault \in BOOLEAN : RateFind(i, fault)
    \/ \E i \in 1..MaxCreateCalls, fault \in BOOLEAN : RateSave(i, fault)
    \/ /\ Len(calls) < MaxCreateCalls
       /\ \E id \in CreateIdInputs, t \in EngageTextInputs :
             CommentRequest(SameUser, id, t)
    \/ \E i \in 1..MaxCreateCalls, fault \in BOOLEAN : CommentFind(i, fault)
    \/ \E i \in 1..MaxCreateCalls, fault \in BOOLEAN : CommentSave(i, fault)
    \/ \E i \in 1..MaxCreateCalls, fault \in BOOLEAN : CommentReread(i, fault)

SpecCreate == Init /\ [][NextCreate]_vars

----------------------------------------------------------------------------
(* Properties *)

Done(k) == calls[k].pc = "done"

\* the recipe a request names, if its id parameter is the hex string of one
Names(k, r) == CastObjectId(calls[k].id) = r /\ r \in Recipes

\* request k is a rate request that passed validation
IsRate(k) == calls[k].op = "rate" /\ calls[k].rating \in MinRating..MaxRating

\* request k is a comment request that passed validation
IsComment(k) == calls[k].op = "comment" /\ Len(calls[k].text) > 0

\* requests i and j ran one after the other, with no step of another request
\* during either and no change of the store between them
InSuccession(i, j) ==
    /\ i \in calls[j].seen
    /\ Done(j)
    /\ calls[i].solo /\ calls[j].solo
    /\ ~calls[i].fault /\ ~calls[j].fault
    /\ calls[i].post = calls[j].pre

\* the positions of arr whose entry is of user u
EntriesOf(arr, u) == {p \in 1..Len(arr) : arr[p].user = u}

\* C1: in every reachable state every recipe holds at most one rating entry
\* per user.
C1_OneRatingPerUser ==
    \A r \in Recipes : \A u \in Users : Cardinality(EntriesOf(ratings[r], u)) <= 1

\* all requests received are rate requests on recipe r, by users that differ
\* from one another, and all are answered
DistinctRaters(r) ==
    /\ Len(calls) >= 2
    /\ \A k \in DOMAIN calls : IsRate(k) /\ Names(k, r) /\ Done(k)
    /\ \A j, k \in DOMAIN calls : j # k => calls[j].user # calls[k].user

\* C2: when distinct users who had not rated recipe r each rate it, with
\* their steps interleaved in any way, then once all are answered each request
\* that met no store failure succeeded, and r holds exactly one entry per
\* successful request, of that user with that value.
C2_NoLostRating ==
    \A r \in Recipes :
        DistinctRaters(r) =>
            /\ \A k \in DOMAIN calls : ~calls[k].fault => calls[k].status = 200
            /\ Len(ratings[r]) =
                 Cardinality({k \in DOMAIN calls : calls[k].status = 200})
            /\ \A k \in DOMAIN calls :
                 calls[k].status = 200 =>
                    \E p \in 1..Len(ratings[r]) :
                       ratings[r][p] = [user |-> calls[k].user,
                                        rating |-> calls[k].rating]

\* as many users as the run admits rated the same recipe, each having read it
\* before any of them saved
C2_Witness ==
    \E r \in Recipes :
        /\ DistinctRaters(r)
        /\ \A k \in DOMAIN calls :
              calls[k].status = 200 /\ calls[k].doc = << >> /\ ~calls[k].solo
        /\ Len(ratings[r]) = MaxRaters

\* C3: a rate request of user U on recipe R followed, after its answer, by a
\* second one both succeed and leave exactly one entry of U on R, holding the
\* second value; the second adds no entry.
C3_RateTwice ==
    \A i, j \in DOMAIN calls : \A r \in Recipes :
        ( /\ InSuccession(i, j)
          /\ IsRate(i) /\ IsRate(j)
          /\ Names(i, r) /\ Names(j, r)
          /\ calls[i].user = calls[j].user )
        => /\ calls[i].status = 200 /\ calls[j].status = 200
           /\ LET after == calls[j].post.ratings[r]
                  mine == EntriesOf(after, calls[j].user)
              IN  /\ Cardinality(mine) = 1
                  /\ \A p \in mine : after[p].rating = calls[j].rating
                  /\ Len(after) = Len(calls[j].pre.ratings[r])

\* request k is a rate, comment or add-favorite request that passed
\* validation, met no store failure, and whose id parameter is the hex string
\* of an ObjectId that is the id of no recipe
NamesNoRecipe(k) ==
    /\ \/ IsRate(k)
       \/ IsComment(k)
       \/ calls[k].op = "favorite"
    /\ ~calls[k].fault
    /\ CastObjectId(calls[k].id) # CastError
    /\ CastObjectId(calls[k].id) \notin Recipes

RECURSIVE PositionFrom(_, _, _)
PositionFrom(arr, k, p) ==
    IF p > Len(arr) THEN 0
    ELSE IF arr[p]._id = k THEN p
    ELSE PositionFrom(arr, k, p + 1)

\* every comment request answered 200 has exactly one entry in its recipe's
\* comments, and of two such requests of one user on one recipe, the second
\* arriving after the first's answer, the first's entry comes first
CommentsKept ==
    /\ \A k \in DOMAIN calls :
          (IsComment(k) /\ calls[k].status = 200) =>
             Cardinality({p \in 1..Len(comments[calls[k].oid]) :
                             comments[calls[k].oid][p]._id = k}) = 1
    /\ \A i, j \in DOMAIN calls :
          ( /\ IsComment(i) /\ IsComment(j)
            /\ calls[i].status = 200 /\ calls[j].status = 200
            /\ i \in calls[j].seen
            /\ calls[i].user = calls[j].user /\ calls[i].oid = calls[j].oid )
          => PositionFrom(comments[calls[i].oid], i, 1)
               < PositionFrom(comments[calls[j].oid], j, 1)

\* a step leaves the comments of recipe r as they are or appends the entry of
\* one comment request whose save completes
CommentsStep(r) ==
    \/ comments'[r] = comments[r]
    \/ \E k \in DOMAIN calls :
          /\ IsComment(k) /\ calls[k].pc = "save" /\ calls[k].oid = r
          /\ calls'[k].wrote
          /\ comments'[r] =
                Append(comments[r], CommentEntry(k, calls[k].user, calls[k].text))

\* C5: comments are append-only: a successful comment request adds exactly
\* one entry, at the end; no step removes, edits, reorders or merges entries;
\* two successive comments of one user on one recipe are two entries in the
\* order of the requests.
C5_AppendOnly ==
    /\ []CommentsKept
    /\ [][\A r \in Recipes : CommentsStep(r)]_vars

\* one user commented twice on one recipe, one request after the other
C5_Witness ==
    \E i, j \in DOMAIN calls :
        /\ IsComment(i) /\ IsComment(j)
        /\ calls[i].status = 200 /\ calls[j].status = 200
        /\ i \in calls[j].seen
        /\ calls[i].user = calls[j].user /\ calls[i].oid = calls[j].oid
        /\ Len(comments[calls[i].oid]) = 2

\* C6: a successful comment request answers the entry it appended itself
\* (its user, its text as stored), whatever other comment requests do.
C6_ReturnsOwnEntry ==
    \A k \in DOMAIN calls :
        (IsComment(k) /\ calls[k].status = 200) =>
            calls[k].ret = CommentEntry(k, calls[k].user, calls[k].text)

\* C7: in every reachable state no user's favoriteRecipes holds a recipe id
\* twice.
C7_NoDuplicateFavorite ==
    \A u \in Users :
        \A p, q \in 1..Len(favoriteRecipes[u]) :
            favoriteRecipes[u][p] = favoriteRecipes[u][q] => p = q

\* requests i and j are add-favorite requests of one user for recipe r, in
\* succession, and r was no favorite of the user when i arrived
AddTwice(i, j, r) ==
    /\ InSuccession(i, j)
    /\ calls[i].op = "favorite" /\ calls[j].op = "favorite"
    /\ Names(i, r) /\ Names(j, r)
    /\ calls[i].user = calls[j].user
    /\ \A p \in 1..Len(calls[i].pre.favoriteRecipes[calls[i].user]) :
          calls[i].pre.favoriteRecipes[calls[i].user][p] # r

\* C8: of two successive add-favorite requests of a user for recipe r, the
\* first succeeds and appends r, the second is answered 400 and leaves the
\* store as it was.
C8_AddTwice ==
    \A i, j \in DOMAIN calls : \A r \in Recipes :
        AddTwice(i, j, r) =>
            /\ calls[i].status = 200
            /\ calls[i].post.favoriteRecipes =
                 [calls[i].pre.favoriteRecipes EXCEPT ![calls[i].user] = Append(@, r)]
            /\ calls[j].status = 400
            /\ calls[j].post = calls[j].pre

\* a user added a recipe to the favorites twice in succession
C8_Witness ==
    \E i, j \in DOMAIN calls : \E r \in Recipes :
        /\ AddTwice(i, j, r)
        /\ calls[i].status = 200 /\ calls[j].status = 400
        /\ \E p \in 1..Len(favoriteRecipes[calls[i].user]) :
              favoriteRecipes[calls[i].user][p] = r

\* the favorites arr without recipe id param, where the parameter names the
\* ObjectId it casts to
Without(arr, param) == SelectSeq(arr, LAMBDA x : x # CastObjectId(param))

\* C9: a remove-favorite request succeeds, removes the recipe its id names
\* from the user's favoriteRecipes and leaves every other entry and every
\* other user's favoriteRecipes in place (nothing changes when the recipe is
\* no member).
C9_Remove ==
    \A k \in DOMAIN calls :
        ( /\ Done(k) /\ calls[k].op = "unfavorite"
          /\ calls[k].solo /\ ~calls[k].fault )
        => /\ calls[k].status = 200
           /\ calls[k].post.favoriteRecipes =
                 [calls[k].pre.favoriteRecipes EXCEPT
                     ![calls[k].user] = Without(@, calls[k].id)]

\* C10: every request either reports success or leaves the store as it was:
\* none reports a failure after its write.
C10_NoFailureAfterWrite ==
    \A k \in DOMAIN calls :
        (Done(k) /\ calls[k].status # 200) =>
            /\ ~calls[k].wrote
            /\ calls[k].solo => calls[k].post = calls[k].pre

----------------------------------------------------------------------------
(* Listing *)

\* request k is a listing the store answered
Listed(k) ==
    /\ requests[k].op = "list" /\ requests[k].pc = "done"
    /\ requests[k].status = 200

\* the number the parameter stands for (def when it is absent)
Given(v, def) == IF v.given THEN parseInt(v).n ELSE def

\* the recipes of the collection the request's predicate matches
Matching(k) == {j \in DOMAIN catalog : Matches(requests[k].filter, catalog[j])}

\* o is ordered by creation time descending, ties by id (dir 1: ascending,
\* -1: descending)
InListingOrder(o, dir) ==
    \A j \in 1..(Len(o) - 1) :
        \/ o[j].createdAt > o[j + 1].createdAt
        \/ /\ o[j].createdAt = o[j + 1].createdAt
           /\ dir * IdRank(o[j]._id) < dir * IdRank(o[j + 1]._id)

ListingOrder(k, dir) ==
    CHOOSE o \in SortOutcomes(Find(requests[k].filter)) : InListingOrder(o, dir)

Slice(o, from, to) == SubSeq(o, from + 1, Min(Len(o), to))

\* C11: every answered listing with page >= 1 and pageSize >= 1 is the slice
\* [(page-1)*pageSize, page*pageSize) of the matching recipes ordered by
\* creation time descending with ties broken by id, so that two pages of one
\* walk have no recipe in common.
C11_SliceOfOrder ==
    /\ \E dir \in {1, -1} :
          \A k \in DOMAIN requests :
             (Listed(k) /\ requests[k].page >= 1 /\ requests[k].limit >= 1) =>
                requests[k].recipes =
                    Slice(ListingOrder(k, dir),
                          (requests[k].page - 1) * requests[k].limit,
                          requests[k].page * requests[k].limit)
    /\ \A j, k \in DOMAIN requests :
          (/\ Listed(j) /\ Listed(k)
           /\ requests[j].limit >= 1 /\ requests[j].page >= 1 /\ requests[k].page >= 1
           /\ requests[j].page # requests[k].page) =>
             Ids(requests[j].recipes) \cap Ids(requests[k].recipes) = {}

\* the least n with n * size >= total
PagesFor(total, size) == CHOOSE n \in 0..total : n * size >= total /\ (n = 0 \/ (n - 1) * size < total)

Max(a, b) == IF a > b THEN a ELSE b

\* what a listing of page and size has to answer when total recipes match
MetadataOf(k, page, size) ==
    LET total == Cardinality(Matching(k))
        p == requests[k].pagination
    IN  /\ p.totalRecipes = total
        /\ p.totalPages = PagesFor(total, size)
        /\ p.hasNext = (page < PagesFor(total, size))
        /\ p.hasPrev = (page > 1)
        /\ Len(requests[k].recipes) = Max(0, Min(size, total - (page - 1) * size))

\* C12: every answered listing with page >= 1 and pageSize >= 1 has
\* totalRecipes = number of matching recipes, totalPages = ceil(total/pageSize),
\* hasNext = (page < totalPages), hasPrev = (page > 1); a page beyond the last
\* one is empty with hasNext false; with 25 matches and pageSize 12, page 1
\* has 12 recipes, page 3 has 1, page 4 has none with hasPrev, totalPages = 3.
C12_Metadata ==
    \A k \in DOMAIN requests :
       (Listed(k) /\ requests[k].page >= 1 /\ requests[k].limit >= 1) =>
          LET r == requests[k]
              p == r.pagination
          IN  /\ MetadataOf(k, r.page, r.limit)
              /\ r.page > p.totalPages => r.recipes = << >> /\ ~p.hasNext
              /\ (Cardinality(Matching(k)) = 25 /\ r.limit = 12) =>
                    /\ p.totalPages = 3
                    /\ r.page = 1 => Len(r.recipes) = 12 /\ p.hasNext /\ ~p.hasPrev
                    /\ r.page = 3 => Len(r.recipes) = 1 /\ ~p.hasNext /\ p.hasPrev
                    /\ r.page = 4 => Len(r.recipes) = 0 /\ ~p.hasNext /\ p.hasPrev

\* page 4 of 25 matches with pageSize 12 has been answered, and page 3 too
C12_Witness ==
    \E j, k \in DOMAIN requests :
       /\ Listed(j) /\ Listed(k)
       /\ requests[j].page = 3 /\ requests[k].page = 4
       /\ requests[k].limit = 12 /\ Cardinality(Matching(k)) = 25
       /\ requests[k].recipes = << >> /\ Len(requests[j].recipes) = 1

\* C13: a listing request whose pageSize is zero or negative is answered, and
\* with the page contents and the metadata of the same request with
\* pageSize = 12.
C13_NonPositivePageSize ==
    \A k \in DOMAIN requests :
       (/\ requests[k].op = "list" /\ requests[k].pc = "done" /\ ~requests[k].fault
        /\ requests[k].query.limit.given
        /\ ~parseInt(requests[k].query.limit).nan
        /\ parseInt(requests[k].query.limit).n <= 0
        /\ requests[k].page >= 1) =>
          /\ requests[k].status = 200
          /\ MetadataOf(k, requests[k].page, DefaultLimit)

\* C14: when no recipe matches, every answered listing of a page >= 1 is
\* empty with totalPages = 0, hasNext = false and hasPrev = false.
C14_NoMatch ==
    \A k \in DOMAIN requests :
       (Listed(k) /\ requests[k].page >= 1 /\ requests[k].limit >= 1
        /\ Matching(k) = {}) =>
          /\ requests[k].recipes = << >>
          /\ requests[k].pagination.totalPages = 0
          /\ ~requests[k].pagination.hasNext
          /\ ~requests[k].pagination.hasPrev

----------------------------------------------------------------------------
(* Filter *)

\* the string is a decimal numeral: digits, then possibly a point and a digit
IsNumeral(s) ==
    /\ s # << >>
    /\ \/ \A j \in DOMAIN s : IsDigit(s[j])
       \/ /\ Len(s) >= 3 /\ s[Len(s) - 1] = "."
          /\ \A j \in DOMAIN s : j # Len(s) - 1 => IsDigit(s[j])

\* the number the numeral stands for, in tenths
TenthsOf(s) ==
    IF \A j \in DOMAIN s : IsDigit(s[j]) THEN 10 * ParseDigits(s, 1, 0)
    ELSE 10 * ParseDigits(s, 1, 0) + DigitValue(s[Len(s)])

\* the parameter holds a number
Parseable(v) == v.given /\ IsNumeral(v.s)

\* The recipe satisfies every constraint the parameters supply: equality for
\* cuisine, diet and difficulty, field <= bound for the numeric bounds, one
\* ingredient name among the given names.  An absent parameter, and a numeric
\* one that holds no number, is no constraint.
Satisfies(q, doc) ==
    /\ q.cuisine.given => doc.cuisine = q.cuisine.s
    /\ q.diet.given => doc.diet = q.diet.s
    /\ q.difficulty.given => doc.difficulty = q.difficulty.s
    /\ Parseable(q.maxPrepTime) => doc.prepTime <= TenthsOf(q.maxPrepTime.s)
    /\ Parseable(q.maxCookTime) => doc.cookTime <= TenthsOf(q.maxCookTime.s)
    /\ Parseable(q.maxCalories) =>
          doc.calories.set /\ doc.calories.n <= TenthsOf(q.maxCalories.s)
    /\ q.ingredients.given =>
          \E j \in DOMAIN doc.ingredients :
             \E n \in DOMAIN Split(q.ingredients.s) :
                doc.ingredients[j].name = Split(q.ingredients.s)[n]

Satisfying(q) == {catalog[j]._id : j \in {i \in DOMAIN catalog : Satisfies(q, catalog[i])}}

NumericParameters(q) == {q.maxPrepTime, q.maxCookTime, q.maxCalories}

\* C15: the listing built from any subset of the filter parameters (numeric
\* ones holding numbers) returns exactly the recipes that satisfy every
\* supplied constraint; without parameters, every recipe.
C15_FilterMatches ==
    \A k \in DOMAIN requests :
       (Listed(k) /\ \A v \in NumericParameters(requests[k].query) :
                         v.given => Parseable(v)) =>
          /\ Ids(requests[k].recipes) = Satisfying(requests[k].query)
          /\ requests[k].pagination.totalRecipes =
                Cardinality(Satisfying(requests[k].query))

\* C16: a listing with a numeric filter parameter that holds no number is
\* answered with the recipes of the same request without that parameter.
C16_MalformedNumber ==
    \A k \in DOMAIN requests :
       (/\ requests[k].op = "list" /\ requests[k].pc = "done" /\ ~requests[k].fault
        /\ \E v \in NumericParameters(requests[k].query) : v.given /\ ~Parseable(v)) =>
          /\ requests[k].status = 200
          /\ Ids(requests[k].recipes) = Satisfying(requests[k].query)

----------------------------------------------------------------------------
(* Popular listing and averageRating *)

\* the mean of the rating values rounded half-up to one decimal place, in
\* tenths; 0 without ratings
MeanHalfUp(arr) ==
    IF arr = << >> THEN 0
    ELSE (20 * SumFrom(arr, 1) + Len(arr)) \div (2 * Len(arr))

\* C17: the popular listing returns the first 12 of all recipes ordered by
\* averageRating descending and then by creation time descending: no recipe
\* outside it has a higher averageRating than one inside it.
C17_PopularByAverage ==
    \A k \in DOMAIN requests :
       (requests[k].op = "popular" /\ requests[k].pc = "done"
        /\ requests[k].status = 200) =>
          LET res == requests[k].recipes
              Avg(doc) == MeanHalfUp(ratings[doc._id])
          IN  /\ Len(res) = Min(PopularLimit, Len(catalog))
              /\ \A j \in 1..(Len(res) - 1) :
                    \/ Avg(res[j]) > Avg(res[j + 1])
                    \/ /\ Avg(res[j]) = Avg(res[j + 1])
                       /\ res[j].createdAt >= res[j + 1].createdAt
              /\ \A j \in DOMAIN catalog :
                    catalog[j]._id \notin Ids(res) =>
                       \A i \in DOMAIN res : Avg(catalog[j]) <= Avg(res[i])

\* C18: the averageRating read with a recipe is 0 without ratings and
\* otherwise the mean of the rating values of the recipe at that time,
\* rounded half-up to one decimal place (4.0 for ratings 5, 4, 3).
C18_AverageRating ==
    \A k \in DOMAIN requests :
       (requests[k].op = "get" /\ requests[k].pc = "done"
        /\ requests[k].status = 200) =>
          /\ requests[k].averageRating.tenths = MeanHalfUp(requests[k].loaded)
          /\ requests[k].loaded = << >> => requests[k].averageRating.tenths = 0
          /\ (Len(requests[k].loaded) = 3
              /\ \A j \in 1..3 : requests[k].loaded[j].rating = 6 - j) =>
                 requests[k].averageRating.tenths = 40

----------------------------------------------------------------------------
(* Frame of rate and comment *)

\* the entries of the array that are not of user u
OthersOf(arr, u) == SelectSeq(arr, LAMBDA e : e.user # u)

\* request k takes the step
Acts(k) == k \in DOMAIN calls /\ calls'[k].pc # calls[k].pc

\* C19: a step of a rate request of user U on recipe R changes nothing but
\* the rating entry of U on R, and a step of a comment request on R nothing
\* but the comments of R: the rating entries of other users on R, the other
\* array of R, every other recipe and every user's favoriteRecipes stay as
\* they are, also when a rate and a comment on R interleave.
C19_Frame ==
    [][\A k \in DOMAIN calls :
          /\ (Acts(k) /\ calls[k].op = "rate") =>
                /\ comments' = comments /\ favoriteRecipes' = favoriteRecipes
                /\ \A r \in Recipes :
                      \/ ratings'[r] = ratings[r]
                      \/ /\ r = calls[k].oid
                         /\ OthersOf(ratings'[r], calls[k].user)
                               = OthersOf(ratings[r], calls[k].user)
          /\ (Acts(k) /\ calls[k].op = "comment") =>
                /\ ratings' = ratings /\ favoriteRecipes' = favoriteRecipes
                /\ \A r \in Recipes :
                      comments'[r] # comments[r] => r = calls[k].oid]_vars

\* a rate and a comment on one recipe overlapped, both succeeded, and the
\* recipe holds the rating and the comment
C19_Witness ==
    \E i, j \in DOMAIN calls :
        /\ IsRate(i) /\ IsComment(j)
        /\ calls[i].status = 200 /\ calls[j].status = 200
        /\ calls[i].wrote /\ calls[j].wrote
        /\ ~calls[i].solo /\ ~calls[j].solo
        /\ calls[i].oid = calls[j].oid
        /\ EntriesOf(ratings[calls[i].oid], calls[i].user) # {}
        /\ Len(comments[calls[i].oid]) = 1

----------------------------------------------------------------------------
(* Create *)

\* request k of operation op and user u has written to recipe r
Wrote(k, op, u, r) ==
    /\ calls[k].op = op /\ calls[k].user = u
    /\ calls[k].oid = r /\ calls[k].wrote

\* C20: every rating entry and every comment entry stored on a recipe was put
\* there by a rate or comment request of the user it names, and every recipe
\* created has the caller of its create request as author.
C20_EntriesFromCalls ==
    /\ \A r \in DOMAIN ratings : \A p \in DOMAIN ratings[r] :
          \E k \in DOMAIN calls : Wrote(k, "rate", ratings[r][p].user, r)
    /\ \A r \in DOMAIN comments : \A p \in DOMAIN comments[r] :
          \E k \in DOMAIN calls : Wrote(k, "comment", comments[r][p].user, r)
    /\ \A k \in DOMAIN calls :
          (calls[k].op = "create" /\ calls[k].wrote) =>
             \E j \in DOMAIN catalog :
                catalog[j]._id = calls[k].oid /\ catalog[j].author = calls[k].user

====
